---- MODULE Spec2Model ----
(***************************************************************************)
(* Access / refresh token lifecycle of the auth lecture: the auth server's *)
(* controllers (register, login, refresh, logout, me), the createTokens    *)
(* and setAuthCookies utilities, the RefreshToken collection with its TTL  *)
(* index, the two error handlers and the API's authenticate middleware.    *)
(*                                                                         *)
(* Every handler is an async function: each `await` on the database is a   *)
(* point where other requests may run.  One action of the model is one     *)
(* database operation together with the synchronous code around it, up to  *)
(* the next database operation or up to the response.                      *)
(*                                                                         *)
(* Spec interleaves the handlers that write the store (register, login,    *)
(* refresh, logout) at every await.  me only reads the User collection,    *)
(* which no handler changes once a user exists, and authenticate touches   *)
(* no store: they commute with every other step, so SeqSpec runs all six   *)
(* handlers one at a time.  The clock and the TTL pass move in both.       *)
(* OrphanSpec interleaves the store-writing handlers with the removal of   *)
(* User documents from outside, the clock standing still.  CrashSpec       *)
(* interleaves them with handlers that stop at an await.                   *)
(***************************************************************************)
EXTENDS Integers, FiniteSets, Sequences, TLC

\* ------------------------------------------------------------------ bounds
MaxReq == 2      \* handlers that may be in flight at once
MaxTok == 3      \* refresh values randomUUID() hands out in one run
MaxTime == 2     \* last instant of the clock

\* ------------------------------------------------------ program constants
ACCESS_TOKEN_TTL == 1
REFRESH_TOKEN_TTL == 2

Slots == 1..MaxReq
Emails == {"a@x", "b@x"}
Passwords == {"pw1", "pw2"}
DefaultRoles == <<"user">>
\* The password the owner of an address registers with.
Secret(email) == "pw1"

\* ------------------------------------------------------------- documents
NoUser == [id |-> 0, email |-> "", password |-> <<>>, roles |-> <<>>]
NoRow == [id |-> 0, token |-> 0, userId |-> 0, expireAt |-> 0]
NoAccess == [sub |-> <<>>, roles |-> <<>>, exp |-> 0, sig |-> "none"]

NoCookie == 0    \* req.cookies.refreshToken is undefined
NoMaxAge == 0    \* a cookie set without maxAge: it lasts for the browser session
Bogus == -1      \* a refresh value the server never issued

\* bcrypt.hash / bcrypt.compare: the stored value is not the password, and
\* compare succeeds exactly for the password that was hashed.
Hash(password) == <<"bcrypt", password>>
Compare(password, hashed) == hashed = Hash(password)

VARIABLES
  users,       \* the User collection
  nextUser,    \* how many User documents have been created (ObjectIds)
  tokens,      \* the RefreshToken collection
  nextTok,     \* how many refresh values randomUUID() has produced
  now,         \* Date.now(), in TTL units
  jar,         \* access tokens signed so far (what a client can present)
  req,         \* per slot: the request a handler is working on
  last,        \* the exchange completed most recently: request and response
  issuedTo,    \* history: refresh value -> id of the user it was issued to
  uses,        \* history: refresh value -> successful refreshes that used it
  superseded,  \* history: values issued to a user before a successful login
  aborted      \* history: values whose refresh stopped after deleting the row

vars == <<users, nextUser, tokens, nextTok, now, jar, req, last, issuedTo, uses, superseded, aborted>>

\* ------------------------------------------------------- store operations
\* Mutant: the exists check never finds the address.
UserExists_Never(email) == FALSE

\* User.exists({ email })
UserExists(email) == \E u \in users : u.email = email

\* User.findOne({ email }) -- null is NoUser
FindUserByEmail(email) ==
  IF UserExists(email) THEN CHOOSE u \in users : u.email = email ELSE NoUser

\* ObjectId.toString() and the cast findById applies to a string id
IdToString(id) == <<"oid", id>>
CastId(str) == IF Len(str) = 2 /\ str[1] = "oid" THEN str[2] ELSE 0

\* User.findById(id) -- null is NoUser
FindUserById(id) ==
  IF \E u \in users : u.id = id THEN CHOOSE u \in users : u.id = id ELSE NoUser

\* RefreshToken.findOne({ token }) -- null is NoRow; expireAt is not read
FindToken(value) ==
  IF \E t \in tokens : t.token = value
  THEN CHOOSE t \in tokens : t.token = value
  ELSE NoRow

\* Mutant: the delete is skipped, the row stays.
FindByIdAndDelete_Keeps(rows, id) == rows

\* RefreshToken.findByIdAndDelete(_id): no error when the row is already gone
FindByIdAndDelete(rows, id) == {t \in rows : t.id # id}

\* Mutant: the filter names _id instead of userId.
DeleteMany_ByRowId(rows, userId) == {t \in rows : t.id # userId}

\* Mutant: the filter also asks for an expireAt in the past.
DeleteMany_ExpiredOnly(rows, userId) ==
  {t \in rows : ~(t.userId = userId /\ t.expireAt <= now)}

\* Mutant: the delete is skipped, the account's rows stay.
DeleteMany_Keeps(rows, userId) == rows

\* Mutant: the filter is empty, every account's rows go.
DeleteMany_AllRows(rows, userId) == {}

\* RefreshToken.deleteMany({ userId })
DeleteMany(rows, userId) == {t \in rows : t.userId # userId}

\* Mutant: the filter matches every row.
DeleteOne_AllRows(rows, value) == {}

\* RefreshToken.deleteOne({ token }): token is unique, no error on a miss
DeleteOne(rows, value) == {t \in rows : t.token # value}

\* The document User.create stores: a fresh ObjectId, never one an earlier
\* document had; roles takes the schema default.
NewUser(email, hashedPW) ==
  [id |-> nextUser + 1, email |-> email,
   password |-> hashedPW, roles |-> DefaultRoles]

\* Mutant: the token is derived from the user instead of randomUUID().
NewRow_PerUser(userData) ==
  [id |-> nextTok + 1, token |-> userData.id,
   userId |-> userData.id, expireAt |-> now + REFRESH_TOKEN_TTL]

\* The document RefreshToken.create stores for a fresh randomUUID() value;
\* expireAt takes the schema default Date.now() + REFRESH_TOKEN_TTL.
NewRow(userData) ==
  [id |-> nextTok + 1, token |-> nextTok + 1,
   userId |-> userData.id, expireAt |-> now + REFRESH_TOKEN_TTL]

\* Mutant: the payload is signed without the roles.
Sign_NoRoles(userData) ==
  [sub |-> IdToString(userData.id), roles |-> <<>>,
   exp |-> now + ACCESS_TOKEN_TTL, sig |-> "ok"]

\* Mutant: the subject option is left out of the sign call.
Sign_NoSubject(userData) ==
  [sub |-> <<>>, roles |-> userData.roles,
   exp |-> now + ACCESS_TOKEN_TTL, sig |-> "ok"]

\* jwt.sign({ roles }, secret, { expiresIn: ACCESS_TOKEN_TTL, subject })
Sign(userData) ==
  [sub |-> IdToString(userData.id), roles |-> userData.roles,
   exp |-> now + ACCESS_TOKEN_TTL, sig |-> "ok"]

\* A token whose signature no longer matches its payload.
Tamper(token) == [token EXCEPT !.sig = "bad"]

\* Mutant: exp is checked before the signature.
Verify_ExpiryFirst(token) ==
  IF now >= token.exp THEN "TokenExpiredError"
  ELSE IF token.sig # "ok" THEN "JsonWebTokenError"
  ELSE "decoded"

\* Mutant: verify is called with ignoreExpiration.
Verify_IgnoreExpiration(token) ==
  IF token.sig # "ok" THEN "JsonWebTokenError" ELSE "decoded"

\* jwt.verify(token, secret): the signature is checked first, then exp.
Verify(token) ==
  IF token.sig # "ok" THEN "JsonWebTokenError"
  ELSE IF now >= token.exp THEN "TokenExpiredError"
  ELSE "decoded"

\* ----------------------------------------------------------------- errors
NoCause == [status |-> 0, code |-> ""]
\* new Error(message, { cause: { status, code? } })
Err(message, status, code) ==
  [isError |-> TRUE, message |-> message,
   cause |-> [status |-> status, code |-> code]]
\* an Error thrown by a library: no cause
PlainErr(message) == [isError |-> TRUE, message |-> message, cause |-> NoCause]

ExpiredHeader == "Bearer error=\"token_expired\", error_description=\"The access token expired\""

\* The auth server's error handler: status from the cause, else 500.
errorHandler(err) ==
  IF err.isError
  THEN IF err.cause # NoCause
       THEN [status |-> err.cause.status, message |-> err.message, header |-> ""]
       ELSE [status |-> 500, message |-> err.message, header |-> ""]
  ELSE [status |-> 500, message |-> "Internal server error", header |-> ""]

\* The API's error handler: as above, plus the WWW-Authenticate header for
\* the ACCESS_TOKEN_EXPIRED code.
errorHandlerApi(err) ==
  IF err.isError
  THEN IF err.cause # NoCause
       THEN [status |-> err.cause.status, message |-> err.message,
             header |-> IF err.cause.code = "ACCESS_TOKEN_EXPIRED"
                        THEN ExpiredHeader ELSE ""]
       ELSE [status |-> 500, message |-> err.message, header |-> ""]
  ELSE [status |-> 500, message |-> "Internal server error", header |-> ""]

\* --------------------------------------------------------------- requests
NoIdentity == [id |-> <<>>, roles |-> <<>>]

\* A request with its handler's locals and its response.  obs records what
\* held of the request's credential when it arrived (history, for the
\* properties below; no handler reads it).
Idle ==
  [kind |-> "none", pc |-> "idle", email |-> "", password |-> "",
   refreshToken |-> NoCookie, accessToken |-> NoAccess,
   storedToken |-> NoRow, user |-> NoUser,
   status |-> 0, message |-> "", header |-> "",
   setRefresh |-> NoCookie, setAccess |-> NoAccess, cleared |-> {},
   refreshMaxAge |-> NoMaxAge, accessMaxAge |-> NoMaxAge,
   reqUser |-> NoIdentity, nextCalled |-> FALSE,
   obs |-> {}, mark |-> 0]

\* Refresh values some successful refresh has used.
consumed == {v \in 1..MaxTok : uses[v] > 0}

\* A row whose expireAt has been reached.
Expired(row) == row.expireAt <= now

ObserveEmail(email) ==
  IF \E u \in users : u.email = email THEN {"known"} ELSE {}

ObserveRefresh(value) ==
  (IF \E t \in tokens : t.token = value THEN {"stored"} ELSE {})
  \cup (IF \E t \in tokens : t.token = value /\ t.expireAt <= now
        THEN {"expired"} ELSE {})
  \cup (IF value \in consumed THEN {"afterUse"} ELSE {})
  \cup (IF value \in superseded THEN {"afterLogin"} ELSE {})
  \cup (IF value \in aborted THEN {"afterAbort"} ELSE {})
  \cup (IF \E t \in tokens : /\ t.token = value
                             /\ \A u \in users : u.id # t.userId
        THEN {"orphan"} ELSE {})

ObserveAccess(token) ==
  (IF token.sig = "ok" /\ token.exp <= now THEN {"expired"} ELSE {})

\* A slot with no handler running.
Free(r) == req[r].pc = "idle"

\* The handler of slot r awaits its next store operation in state q.
Continue(r, q) == req' = [req EXCEPT ![r] = q] /\ UNCHANGED last

\* The handler of slot r has answered: q is the finished exchange.
Complete(r, q) == req' = [req EXCEPT ![r] = Idle] /\ last' = q

\* Either of the two, by whether q is finished.
Move(r, q) == IF q.pc = "done" THEN Complete(r, q) ELSE Continue(r, q)

\* The response an error handler sends for a thrown or forwarded error.
Fail(q, resp) ==
  [q EXCEPT !.pc = "done", !.status = resp.status,
            !.message = resp.message, !.header = resp.header]

\* res.status(status).json({ message })
Reply(q, status, message) ==
  [q EXCEPT !.pc = "done", !.status = status, !.message = message]

\* Mutant: only the accessToken cookie is set.
setAuthCookies_AccessOnly(q, refreshToken, accessToken) ==
  [q EXCEPT !.setAccess = accessToken]

\* setAuthCookies(res, refreshToken, accessToken): the refreshToken cookie
\* gets maxAge REFRESH_TOKEN_TTL * 1000 (milliseconds); the accessToken
\* cookie gets the shared cookieOptions only, which hold no maxAge.
setAuthCookies(q, refreshToken, accessToken) ==
  [q EXCEPT !.setRefresh = refreshToken, !.setAccess = accessToken,
            !.refreshMaxAge = REFRESH_TOKEN_TTL * 1000,
            !.accessMaxAge = NoMaxAge]

\* createTokens(userData): the pair it returns
createTokens(userData) == <<NewRow(userData).token, Sign(userData)>>

Init ==
  /\ users = {}
  /\ nextUser = 0
  /\ tokens = {}
  /\ nextTok = 0
  /\ now = 0
  /\ jar = {}
  /\ req = [r \in Slots |-> Idle]
  /\ last = Idle
  /\ issuedTo = <<>>
  /\ uses = [v \in 1..MaxTok |-> 0]
  /\ superseded = {}
  /\ aborted = {}

\* createTokens(userData) followed by setAuthCookies and the success reply:
\* one RefreshToken.create, then synchronous code up to the response.
IssueSession(r, userData, status, message) ==
  /\ nextTok < MaxTok
  /\ tokens' = tokens \cup {NewRow(userData)}
  /\ nextTok' = nextTok + 1
  /\ jar' = jar \cup {Sign(userData)}
  /\ issuedTo' = Append(issuedTo, userData.id)
  /\ Complete(r, Reply(setAuthCookies(req[r], createTokens(userData)[1],
                                      createTokens(userData)[2]),
                       status, message))

\* --------------------------------------------------------------- register
\* User.exists, the 409 throw, bcrypt.genSalt and bcrypt.hash
RegisterExists(r, email, password) ==
  /\ Free(r)
  /\ LET q == [Idle EXCEPT !.kind = "register", !.email = email,
                           !.password = password,
                           !.obs = ObserveEmail(email)]
     IN Move(r, IF UserExists(email)
                THEN Fail(q, errorHandler(Err("Email already exists", 409, "")))
                ELSE [q EXCEPT !.pc = "User.create"])
  /\ UNCHANGED <<users, nextUser, tokens, nextTok, now, jar, issuedTo, uses, superseded, aborted>>

\* User.create: the unique index on email rejects a duplicate with a
\* driver error that carries no cause.
RegisterCreate(r) ==
  /\ req[r].kind = "register" /\ req[r].pc = "User.create"
  /\ IF UserExists(req[r].email)
     THEN /\ Move(r, Fail(req[r], errorHandler(PlainErr("E11000 duplicate key error"))))
          /\ UNCHANGED <<users, nextUser>>
     ELSE LET u == NewUser(req[r].email, Hash(req[r].password))
          IN /\ users' = users \cup {u}
             /\ nextUser' = nextUser + 1
             /\ Move(r, [req[r] EXCEPT !.user = u, !.pc = "createTokens"])
  /\ UNCHANGED <<tokens, nextTok, now, jar, issuedTo, uses, superseded, aborted>>

\* createTokens, setAuthCookies, res.status(201)
RegisterTokens(r) ==
  /\ req[r].kind = "register" /\ req[r].pc = "createTokens"
  /\ IssueSession(r, req[r].user, 201, "Registered")
  /\ UNCHANGED <<users, nextUser, now, uses, superseded, aborted>>

\* Mutant: the two failures of login are told apart.
LoginError_Specific(user) ==
  IF user = NoUser
  THEN Err("User not found", 404, "")
  ELSE Err("Incorrect password", 401, "")

\* The error login throws when the lookup gave `user`: the same for an
\* unknown address (NoUser) and for a password mismatch.
LoginError(user) == Err("Incorrect credentials", 401, "")

\* Mutant: the deleteMany runs before bcrypt.compare, so a wrong password
\* still removes the account's rows.
LoginFind_DeletesFirst(r, email, password) ==
  /\ Free(r)
  /\ LET q == [Idle EXCEPT !.kind = "login", !.email = email,
                           !.password = password,
                           !.obs = ObserveEmail(email)]
         user == FindUserByEmail(email)
     IN /\ Move(r,
             IF user = NoUser
             THEN Fail(q, errorHandler(LoginError(user)))
             ELSE IF ~Compare(password, user.password)
             THEN Fail([q EXCEPT !.user = user],
                       errorHandler(LoginError(user)))
             ELSE [q EXCEPT !.user = user, !.mark = nextTok,
                            !.pc = "deleteMany"])
        /\ tokens' = IF user = NoUser THEN tokens
                     ELSE DeleteMany(tokens, user.id)
  /\ UNCHANGED <<users, nextUser, nextTok, now, jar, issuedTo, uses, superseded, aborted>>

\* ------------------------------------------------------------------ login
\* User.findOne({ email }), bcrypt.compare and the two 401 throws
LoginFind(r, email, password) ==
  /\ Free(r)
  /\ LET q == [Idle EXCEPT !.kind = "login", !.email = email,
                           !.password = password,
                           !.obs = ObserveEmail(email)]
         user == FindUserByEmail(email)
     IN Move(r,
          IF user = NoUser
          THEN Fail(q, errorHandler(LoginError(user)))
          ELSE IF ~Compare(password, user.password)
          THEN Fail([q EXCEPT !.user = user],
                    errorHandler(LoginError(user)))
          ELSE [q EXCEPT !.user = user, !.mark = nextTok,
                         !.pc = "deleteMany"])
  /\ UNCHANGED <<users, nextUser, tokens, nextTok, now, jar, issuedTo, uses, superseded, aborted>>

\* Mutant: login goes on to createTokens without the deleteMany.
LoginDeleteMany_Skipped(r) ==
  /\ req[r].kind = "login" /\ req[r].pc = "deleteMany"
  /\ Move(r, [req[r] EXCEPT !.pc = "createTokens"])
  /\ UNCHANGED <<users, nextUser, tokens, nextTok, now, jar, issuedTo, uses, superseded, aborted>>

\* RefreshToken.deleteMany({ userId: user._id })
LoginDeleteMany(r) ==
  /\ req[r].kind = "login" /\ req[r].pc = "deleteMany"
  /\ tokens' = DeleteMany(tokens, req[r].user.id)
  /\ Move(r, [req[r] EXCEPT !.pc = "createTokens"])
  /\ UNCHANGED <<users, nextUser, nextTok, now, jar, issuedTo, uses, superseded, aborted>>

\* createTokens, setAuthCookies, res.status(200).  History: the values
\* issued to this user before the login arrived are now superseded.
LoginTokens(r) ==
  /\ req[r].kind = "login" /\ req[r].pc = "createTokens"
  /\ IssueSession(r, req[r].user, 200, "Logged in")
  /\ superseded' = superseded \cup
       {v \in 1..req[r].mark : issuedTo[v] = req[r].user.id}
  /\ UNCHANGED <<users, nextUser, now, uses, aborted>>

\* ---------------------------------------------------------------- refresh
\* Mutant: the cookie check is left out; a request without cookie goes to
\* the lookup and is answered as a miss.
RefreshFind_NoCookieCheck(r, value) ==
  /\ Free(r)
  /\ LET q == [Idle EXCEPT !.kind = "refresh", !.refreshToken = value,
                           !.obs = ObserveRefresh(value)]
         storedToken == FindToken(value)
     IN Move(r,
          IF storedToken = NoRow
          THEN Fail(q, errorHandler(Err("Refresh token not found.", 403, "")))
          ELSE [q EXCEPT !.storedToken = storedToken,
                         !.pc = "findByIdAndDelete"])
  /\ UNCHANGED <<users, nextUser, tokens, nextTok, now, jar, issuedTo, uses, superseded, aborted>>

\* the cookie check and RefreshToken.findOne({ token })
RefreshFind(r, value) ==
  /\ Free(r)
  /\ LET q == [Idle EXCEPT !.kind = "refresh", !.refreshToken = value,
                           !.obs = ObserveRefresh(value)]
         storedToken == FindToken(value)
     IN Move(r,
          IF value = NoCookie
          THEN Fail(q, errorHandler(Err("Refresh token is required.", 401, "")))
          ELSE IF storedToken = NoRow
          THEN Fail(q, errorHandler(Err("Refresh token not found.", 403, "")))
          ELSE [q EXCEPT !.storedToken = storedToken,
                         !.pc = "findByIdAndDelete"])
  /\ UNCHANGED <<users, nextUser, tokens, nextTok, now, jar, issuedTo, uses, superseded, aborted>>

\* Mutant: the old row is left for a later step; the handler goes on to
\* the user lookup with the row still stored.
RefreshDelete_Deferred(r) ==
  /\ req[r].kind = "refresh" /\ req[r].pc = "findByIdAndDelete"
  /\ Move(r, [req[r] EXCEPT !.pc = "User.findById"])
  /\ UNCHANGED <<users, nextUser, tokens, nextTok, now, jar, issuedTo, uses, superseded, aborted>>

\* RefreshToken.findByIdAndDelete(storedToken._id)
RefreshDelete(r) ==
  /\ req[r].kind = "refresh" /\ req[r].pc = "findByIdAndDelete"
  /\ tokens' = FindByIdAndDelete(tokens, req[r].storedToken.id)
  /\ Move(r, [req[r] EXCEPT !.pc = "User.findById"])
  /\ UNCHANGED <<users, nextUser, nextTok, now, jar, issuedTo, uses, superseded, aborted>>

\* Mutant: the null check is left out; createTokens reads _id of null and
\* the TypeError reaches the error handler without a cause.
RefreshFindUser_NoCheck(r) ==
  /\ req[r].kind = "refresh" /\ req[r].pc = "User.findById"
  /\ LET user == FindUserById(req[r].storedToken.userId)
     IN Move(r,
          IF user = NoUser
          THEN Fail(req[r], errorHandler(PlainErr("Cannot read properties of null")))
          ELSE [req[r] EXCEPT !.user = user, !.pc = "createTokens"])
  /\ UNCHANGED <<users, nextUser, tokens, nextTok, now, jar, issuedTo, uses, superseded, aborted>>

\* User.findById(storedToken.userId) and the 403 throw
RefreshFindUser(r) ==
  /\ req[r].kind = "refresh" /\ req[r].pc = "User.findById"
  /\ LET user == FindUserById(req[r].storedToken.userId)
     IN Move(r,
          IF user = NoUser
          THEN Fail(req[r], errorHandler(Err("User not found.", 403, "")))
          ELSE [req[r] EXCEPT !.user = user, !.pc = "createTokens"])
  /\ UNCHANGED <<users, nextUser, tokens, nextTok, now, jar, issuedTo, uses, superseded, aborted>>

\* createTokens, setAuthCookies, res.json.  History: one more successful
\* refresh has used the presented value.
RefreshTokens(r) ==
  /\ req[r].kind = "refresh" /\ req[r].pc = "createTokens"
  /\ IssueSession(r, req[r].user, 200, "Refreshed")
  /\ uses' = [uses EXCEPT ![req[r].refreshToken] = @ + 1]
  /\ UNCHANGED <<users, nextUser, now, superseded, aborted>>

\* Mutant: the cookie guard is dropped; deleteOne with an undefined token
\* filters on nothing and removes the first row it meets.
Logout_Unguarded(r, value) ==
  /\ Free(r)
  /\ tokens' = IF value # NoCookie THEN DeleteOne(tokens, value)
               ELSE IF tokens = {} THEN tokens
               ELSE tokens \ {CHOOSE t \in tokens : TRUE}
  /\ Complete(r,
       Reply([Idle EXCEPT !.kind = "logout", !.refreshToken = value,
                          !.obs = ObserveRefresh(value),
                          !.cleared = {"refreshToken", "accessToken"}],
             200, "Successfully logged out"))
  /\ UNCHANGED <<users, nextUser, nextTok, now, jar, issuedTo, uses, superseded, aborted>>

\* ----------------------------------------------------------------- logout
\* RefreshToken.deleteOne when the cookie is present, the two clearCookie
\* calls and the reply
Logout(r, value) ==
  /\ Free(r)
  /\ tokens' = IF value # NoCookie THEN DeleteOne(tokens, value) ELSE tokens
  /\ Complete(r,
       Reply([Idle EXCEPT !.kind = "logout", !.refreshToken = value,
                          !.obs = ObserveRefresh(value),
                          !.cleared = {"refreshToken", "accessToken"}],
             200, "Successfully logged out"))
  /\ UNCHANGED <<users, nextUser, nextTok, now, jar, issuedTo, uses, superseded, aborted>>

\* --------------------------------------------------------------------- me
\* What the catch block of me and of authenticate forwards to next().
CatchError(thrown) ==
  IF thrown = "TokenExpiredError"
  THEN Err("Expired access token", 401, "ACCESS_TOKEN_EXPIRED")
  ELSE Err("Invalid access token.", 401, "")

\* the cookie check, jwt.verify and the decoded.sub check
MeVerify(r, token) ==
  /\ Free(r)
  /\ LET q == [Idle EXCEPT !.kind = "me", !.accessToken = token,
                           !.obs = ObserveAccess(token)]
     IN Move(r,
          IF token = NoAccess
          THEN Fail(q, errorHandler(Err("Access token is required.", 401, "")))
          ELSE IF Verify(token) # "decoded"
          THEN Fail(q, errorHandler(CatchError(Verify(token))))
          ELSE IF token.sub = <<>>
          THEN Fail(q, errorHandler(CatchError("Error")))
          ELSE [q EXCEPT !.pc = "User.findById"])
  /\ UNCHANGED <<users, nextUser, tokens, nextTok, now, jar, issuedTo, uses, superseded, aborted>>

\* User.findById(decoded.sub); the 404 is thrown inside the try block
MeFind(r) ==
  /\ req[r].kind = "me" /\ req[r].pc = "User.findById"
  /\ LET user == FindUserById(CastId(req[r].accessToken.sub))
     IN Move(r,
          IF user = NoUser
          THEN Fail(req[r], errorHandler(CatchError("Error")))
          ELSE Reply([req[r] EXCEPT !.user = user], 200, "Valid token"))
  /\ UNCHANGED <<users, nextUser, tokens, nextTok, now, jar, issuedTo, uses, superseded, aborted>>

\* ----------------------------------------------------------- authenticate
\* Mutant: the catch block forwards the error and the code after it still
\* runs next().
Authenticate_FallsThrough(r, token) ==
  /\ Free(r)
  /\ LET q == [Idle EXCEPT !.kind = "authenticate", !.accessToken = token,
                           !.obs = ObserveAccess(token)]
     IN Complete(r,
          IF token = NoAccess
          THEN Fail(q, errorHandlerApi(Err("Not authenticated", 401, "")))
          ELSE IF Verify(token) # "decoded"
          THEN [Fail(q, errorHandlerApi(CatchError(Verify(token))))
                  EXCEPT !.nextCalled = TRUE]
          ELSE IF token.sub = <<>>
          THEN [Fail(q, errorHandlerApi(CatchError("Error")))
                  EXCEPT !.nextCalled = TRUE]
          ELSE [q EXCEPT !.pc = "done", !.nextCalled = TRUE,
                         !.reqUser = [id |-> token.sub, roles |-> token.roles]])
  /\ UNCHANGED <<users, nextUser, tokens, nextTok, now, jar, issuedTo, uses, superseded, aborted>>

\* Mutant: the middleware also requires a stored session of the subject.
Authenticate_ChecksSession(r, token) ==
  /\ Free(r)
  /\ LET q == [Idle EXCEPT !.kind = "authenticate", !.accessToken = token,
                           !.obs = ObserveAccess(token)]
     IN Complete(r,
          IF token = NoAccess
          THEN Fail(q, errorHandlerApi(Err("Not authenticated", 401, "")))
          ELSE IF Verify(token) # "decoded"
          THEN Fail(q, errorHandlerApi(CatchError(Verify(token))))
          ELSE IF token.sub = <<>>
          THEN Fail(q, errorHandlerApi(CatchError("Error")))
          ELSE IF \A t \in tokens : t.userId # CastId(token.sub)
          THEN Fail(q, errorHandlerApi(CatchError("Error")))
          ELSE [q EXCEPT !.pc = "done", !.nextCalled = TRUE,
                         !.reqUser = [id |-> token.sub, roles |-> token.roles]])
  /\ UNCHANGED <<users, nextUser, tokens, nextTok, now, jar, issuedTo, uses, superseded, aborted>>

\* Mutant: req.user is set but next() is never called.
Authenticate_NoNext(r, token) ==
  /\ Free(r)
  /\ LET q == [Idle EXCEPT !.kind = "authenticate", !.accessToken = token,
                           !.obs = ObserveAccess(token)]
     IN Complete(r,
          IF token = NoAccess
          THEN Fail(q, errorHandlerApi(Err("Not authenticated", 401, "")))
          ELSE IF Verify(token) # "decoded"
          THEN Fail(q, errorHandlerApi(CatchError(Verify(token))))
          ELSE IF token.sub = <<>>
          THEN Fail(q, errorHandlerApi(CatchError("Error")))
          ELSE [q EXCEPT !.pc = "done",
                         !.reqUser = [id |-> token.sub, roles |-> token.roles]])
  /\ UNCHANGED <<users, nextUser, tokens, nextTok, now, jar, issuedTo, uses, superseded, aborted>>

\* The API's middleware in front of a protected route: synchronous, no
\* store access; errors go to the API's error handler.
Authenticate(r, token) ==
  /\ Free(r)
  /\ LET q == [Idle EXCEPT !.kind = "authenticate", !.accessToken = token,
                           !.obs = ObserveAccess(token)]
     IN Complete(r,
          IF token = NoAccess
          THEN Fail(q, errorHandlerApi(Err("Not authenticated", 401, "")))
          ELSE IF Verify(token) # "decoded"
          THEN Fail(q, errorHandlerApi(CatchError(Verify(token))))
          ELSE IF token.sub = <<>>
          THEN Fail(q, errorHandlerApi(CatchError("Error")))
          ELSE [q EXCEPT !.pc = "done", !.nextCalled = TRUE,
                         !.reqUser = [id |-> token.sub, roles |-> token.roles]])
  /\ UNCHANGED <<users, nextUser, tokens, nextTok, now, jar, issuedTo, uses, superseded, aborted>>

\* ------------------------------------------------------------ environment
\* Time passes.
Tick ==
  /\ now < MaxTime
  /\ now' = now + 1
  /\ UNCHANGED <<users, nextUser, tokens, nextTok, jar, req, last, issuedTo, uses, superseded, aborted>>

\* The TTL index { expireAt: 1 }, expireAfterSeconds 0: a background pass of
\* the database removes the expired rows, some time after they expire.
TTLSweep ==
  /\ \E t \in tokens : Expired(t)
  /\ tokens' = {t \in tokens : ~Expired(t)}
  /\ UNCHANGED <<users, nextUser, nextTok, now, jar, req, last, issuedTo, uses, superseded, aborted>>

\* A User document is removed from the collection by something other than
\* these handlers (none of them deletes a user); nothing cascades to the
\* RefreshToken collection.  This is the case refresh's `if (!user)` is for.
RemoveUser(u) ==
  /\ u \in users
  /\ users' = users \ {u}
  /\ UNCHANGED <<nextUser, tokens, nextTok, now, jar, req, last, issuedTo, uses, superseded, aborted>>

\* The handler of slot r stops at the await it is waiting in and performs
\* no later step (the process dies, or the request is cancelled): what it
\* has written stays written and no response is sent.  History: a refresh
\* stopped after its findByIdAndDelete.
Abort(r) ==
  /\ ~Free(r)
  /\ req' = [req EXCEPT ![r] = Idle]
  /\ last' = [req[r] EXCEPT !.pc = "aborted"]
  /\ aborted' = IF /\ req[r].kind = "refresh"
                   /\ req[r].pc \in {"User.findById", "createTokens"}
                THEN aborted \cup {req[r].refreshToken} ELSE aborted
  /\ UNCHANGED <<users, nextUser, tokens, nextTok, now, jar, issuedTo, uses, superseded>>

\* ----------------------------------------------------------------- client
\* What a client can put in the refreshToken cookie: nothing, a value the
\* server never issued, or any value issued so far.
RefreshCookies == {NoCookie, Bogus} \cup (1..nextTok)

\* What a client can put in the accessToken cookie: nothing, a token the
\* server signed, or such a token altered after signing.
AccessCookies == {NoAccess} \cup jar \cup {Tamper(t) : t \in jar}

\* Sessions still to be issued by the handlers in flight.
Pending ==
  Cardinality({s \in Slots : req[s].kind \in {"register", "login", "refresh"}})

\* A request that goes on to issue a session is taken only while a refresh
\* value is left for it.
Admitted(r) == (~Free(r))' => nextTok + Pending < MaxTok

register(r) ==
  \/ \E e \in Emails : RegisterExists(r, e, Secret(e)) /\ Admitted(r)
  \/ RegisterCreate(r)
  \/ RegisterTokens(r)

login(r) ==
  \/ \E e \in Emails, p \in Passwords : LoginFind(r, e, p) /\ Admitted(r)
  \/ LoginDeleteMany(r)
  \/ LoginTokens(r)

refresh(r) ==
  \/ \E v \in RefreshCookies : RefreshFind(r, v) /\ Admitted(r)
  \/ RefreshDelete(r)
  \/ RefreshFindUser(r)
  \/ RefreshTokens(r)

logout(r) == \E v \in RefreshCookies : Logout(r, v)

\* The handlers that write the store.
SessionStep(r) == register(r) \/ login(r) \/ refresh(r) \/ logout(r)

Next ==
  \/ \E r \in Slots : SessionStep(r)
  \/ Tick
  \/ TTLSweep

Spec == Init /\ [][Next]_vars

me(r) ==
  \/ \E t \in AccessCookies : MeVerify(r, t)
  \/ MeFind(r)

authenticate(r) == \E t \in AccessCookies : Authenticate(r, t)

\* All six handlers, one at a time: a step is taken by a handler, by the
\* clock or by the TTL pass only while no other handler is in flight.
Quiet(r) == \A s \in Slots \ {r} : Free(s)

SeqStep(r) ==
  \/ \E e \in Emails : Quiet(r) /\ RegisterExists(r, e, Secret(e)) /\ Admitted(r)
  \/ Quiet(r) /\ RegisterCreate(r)
  \/ Quiet(r) /\ RegisterTokens(r)
  \/ \E e \in Emails, p \in Passwords : Quiet(r) /\ LoginFind(r, e, p) /\ Admitted(r)
  \/ Quiet(r) /\ LoginDeleteMany(r)
  \/ Quiet(r) /\ LoginTokens(r)
  \/ \E v \in RefreshCookies : Quiet(r) /\ RefreshFind(r, v) /\ Admitted(r)
  \/ Quiet(r) /\ RefreshDelete(r)
  \/ Quiet(r) /\ RefreshFindUser(r)
  \/ Quiet(r) /\ RefreshTokens(r)
  \/ \E v \in RefreshCookies : Quiet(r) /\ Logout(r, v)
  \/ \E t \in AccessCookies : Quiet(r) /\ MeVerify(r, t)
  \/ Quiet(r) /\ MeFind(r)
  \/ \E t \in AccessCookies : Quiet(r) /\ Authenticate(r, t)

SeqNext ==
  \/ \E r \in Slots : SeqStep(r)
  \/ (\A s \in Slots : Free(s)) /\ Tick
  \/ (\A s \in Slots : Free(s)) /\ TTLSweep

SeqSpec == Init /\ [][SeqNext]_vars

\* The store-writing handlers interleaved, with users that may disappear;
\* the clock stands still.
OrphanNext ==
  \/ \E r \in Slots : SessionStep(r)
  \/ \E u \in users : RemoveUser(u)

OrphanSpec == Init /\ [][OrphanNext]_vars

\* The store-writing handlers interleaved, any of which may stop at an
\* await; the clock stands still.
CrashNext ==
  \/ \E r \in Slots : SessionStep(r)
  \/ \E r \in Slots : Abort(r)

CrashSpec == Init /\ [][CrashNext]_vars

\* Tokens signed with ACCESS_JWT_SECRET whose payload has no subject: the
\* handlers never sign one, but whoever holds the secret can, and the
\* `if (!decoded.sub)` check of me and authenticate is there for them.
Unsubjected == {[t EXCEPT !.sub = <<>>] : t \in jar}

\* The six handlers one at a time, me and authenticate also receiving
\* signed tokens without subject.
BearerNext ==
  \/ SeqNext
  \/ \E r \in Slots, t \in Unsubjected : Quiet(r) /\ MeVerify(r, t)
  \/ \E r \in Slots, t \in Unsubjected : Quiet(r) /\ Authenticate(r, t)

BearerSpec == Init /\ [][BearerNext]_vars

\* login and refresh interleaved at their store steps, register run to
\* completion while nothing else is in flight; no logout, and the clock
\* stands still.
NoRegister == \A s \in Slots : req[s].kind # "register"

RaceStep(r) ==
  \/ \E e \in Emails : Quiet(r) /\ RegisterExists(r, e, Secret(e)) /\ Admitted(r)
  \/ Quiet(r) /\ RegisterCreate(r)
  \/ Quiet(r) /\ RegisterTokens(r)
  \/ \E e \in Emails, p \in Passwords :
       NoRegister /\ LoginFind(r, e, p) /\ Admitted(r)
  \/ LoginDeleteMany(r)
  \/ LoginTokens(r)
  \/ \E v \in RefreshCookies : NoRegister /\ RefreshFind(r, v) /\ Admitted(r)
  \/ RefreshDelete(r)
  \/ RefreshFindUser(r)
  \/ RefreshTokens(r)

RaceNext == \E r \in Slots : RaceStep(r)

RaceSpec == Init /\ [][RaceNext]_vars

\* ================================================================ claims
\* What a client sees of a finished exchange.
Response(q) ==
  [status |-> q.status, message |-> q.message, header |-> q.header,
   setRefresh |-> q.setRefresh, setAccess |-> q.setAccess,
   cleared |-> q.cleared]

BothCookies == {"refreshToken", "accessToken"}

\* C1: of the refresh requests that present one stored value, however their
\* store steps interleave, at most one succeeds (so one new row results).
C1_ConcurrentRefreshOneWinner == \A v \in 1..MaxTok : uses[v] <= 1

\* C2: once a refresh with value v has succeeded, a refresh request that
\* arrives later with v is answered 403, sets no cookie, and never gets
\* past the lookup.
C2_RotationSingleUse ==
  /\ (last.kind = "refresh" /\ "afterUse" \in last.obs) =>
       /\ last.status = 403
       /\ last.setRefresh = NoCookie /\ last.setAccess = NoAccess
  /\ \A r \in Slots : req[r].kind = "refresh" => "afterUse" \notin req[r].obs

C2_Witness ==
  /\ last.kind = "refresh" /\ "afterUse" \in last.obs /\ last.status = 403
  /\ tokens # {}

\* C3: a refresh request presenting a value that was issued to user u before
\* a login of u that has succeeded is answered 403 and sets no cookie.
C3_LoginInvalidatesPrior ==
  /\ (last.kind = "refresh" /\ "afterLogin" \in last.obs) =>
       /\ last.status = 403
       /\ last.setRefresh = NoCookie /\ last.setAccess = NoAccess
  /\ \A r \in Slots : req[r].kind = "refresh" => "afterLogin" \notin req[r].obs

C3_Witness ==
  /\ last.kind = "refresh" /\ "afterLogin" \in last.obs /\ last.status = 403
  /\ "afterUse" \notin last.obs

\* C4: a refresh request presenting a stored value whose expireAt has been
\* reached is answered 403, also while the TTL pass has not removed the row.
C4_ExpiredRefreshRejected ==
  (last.kind = "refresh" /\ "expired" \in last.obs) => last.status = 403

C6_DuplicateRegisterConflict ==
  [][/\ (last' # last /\ last'.kind = "register" /\ "known" \in last'.obs) =>
          /\ last'.status = 409
          /\ last'.setRefresh = NoCookie /\ last'.setAccess = NoAccess
          /\ users' = users /\ tokens' = tokens /\ nextTok' = nextTok
     /\ \A r \in Slots : req'[r].kind = "register" => "known" \notin req'[r].obs
    ]_vars

C6_Witness ==
  /\ last.kind = "register" /\ "known" \in last.obs /\ last.status = 409
  /\ Cardinality({u \in users : u.email = last.email}) = 1

\* C7: me and authenticate answer an access token whose expiry has been
\* reached with 401 and the WWW-Authenticate token_expired header.
C7_ExpiredAccessMarked ==
  (last.kind \in {"me", "authenticate"} /\ "expired" \in last.obs) =>
    (last.status = 401 /\ last.header = ExpiredHeader)

\* C8: me answers a request without access token with 401, and one whose
\* token has a bad signature with the generic 401: no token_expired header
\* and the invalid-token message, whatever the token's expiry.
C8_MeMissingOrTampered ==
  /\ last.kind = "me" =>
       /\ last.accessToken = NoAccess =>
            (last.status = 401 /\ last.header = "")
       /\ last.accessToken.sig = "bad" =>
            /\ last.status = 401 /\ last.header = ""
            /\ last.message = "Invalid access token."
  /\ \A r \in Slots : req[r].kind = "me" => req[r].accessToken.sig = "ok"

C8_Witness ==
  /\ last.kind = "me" /\ last.accessToken.sig = "bad"
  /\ last.accessToken.exp <= now
  /\ last.status = 401 /\ last.message = "Invalid access token."

\* C9: a login with an address no user has and a login with a user's address
\* and a password that is not the user's get the same response: 401,
\* 'Incorrect credentials', no header, no cookie.
C9_LoginFailureUndifferentiated ==
  LET unknown == "known" \notin last.obs
      wrong == /\ "known" \in last.obs
               /\ \E u \in users : /\ u.email = last.email
                                   /\ u.password # Hash(last.password)
  IN (last.kind = "login" /\ (unknown \/ wrong)) =>
       Response(last) =
         [status |-> 401, message |-> "Incorrect credentials", header |-> "",
          setRefresh |-> NoCookie, setAccess |-> NoAccess, cleared |-> {}]

C9_Witness ==
  /\ last.kind = "login" /\ "known" \in last.obs /\ last.status = 401
  /\ \E u \in users : u.email = last.email /\ u.password # Hash(last.password)

\* C10: a logout with refresh value v removes the RefreshToken rows whose
\* token is v and no other, leaves the User collection as it was, clears
\* both cookies and answers 200.
C10_LogoutFrame ==
  [][(last' # last /\ last'.kind = "logout") =>
       /\ tokens' = {t \in tokens : t.token # last'.refreshToken}
       /\ users' = users
       /\ last'.cleared = BothCookies
       /\ last'.status = 200
    ]_vars

C10_Witness ==
  /\ last.kind = "logout" /\ "stored" \in last.obs
  /\ \A t \in tokens : t.token # last.refreshToken
  /\ tokens # {}

\* C11: logout is idempotent.  After any logout the store is a fixed point
\* of the same call, and a logout whose value is in no row (removed by an
\* earlier logout, or never there) or that carries no cookie answers 200,
\* clears both cookies and leaves both collections as they were.
C11_LogoutIdempotent ==
  [][(last' # last /\ last'.kind = "logout") =>
       /\ last'.status = 200 /\ last'.header = ""
       /\ last'.cleared = BothCookies
       /\ last'.refreshToken # NoCookie =>
            DeleteOne(tokens', last'.refreshToken) = tokens'
       /\ "stored" \notin last'.obs => (tokens' = tokens /\ users' = users)
    ]_vars

C11_Witness ==
  /\ last.kind = "logout" /\ "stored" \notin last.obs
  /\ last.refreshToken \in 1..nextTok
  /\ last.status = 200 /\ tokens # {}

\* C12: end to end.  A refresh that succeeds with r1 hands out a pair
\* (r2, a2): r2 was never issued before (so it is not r1), its row and the
\* subject of a2 belong to the user r1 was issued to, and r1 is in no row any
\* more; a refresh arriving later with r1 is answered 403; and me answers an
\* unexpired token the server signed with 200 and the user the token's
\* subject names.
C12_EndToEnd ==
  /\ [][(last' # last /\ last'.kind = "refresh" /\ last'.status = 200) =>
          /\ last'.setRefresh \notin 1..nextTok
          /\ last'.setRefresh # last'.refreshToken
          /\ \E t \in tokens' : /\ t.token = last'.setRefresh
                                /\ t.userId = issuedTo[last'.refreshToken]
          /\ last'.setAccess.sub = IdToString(issuedTo[last'.refreshToken])
          /\ \A t \in tokens' : t.token # last'.refreshToken
       ]_vars
  /\ []((last.kind = "refresh" /\ "afterUse" \in last.obs) => last.status = 403)
  /\ []((/\ last.kind = "me" /\ last.accessToken # NoAccess
         /\ last.accessToken.sig = "ok" /\ "expired" \notin last.obs) =>
          /\ last.status = 200
          /\ last.user \in users
          /\ IdToString(last.user.id) = last.accessToken.sub)

\* register, a refresh with r1 = 1 and no login: a2 is the token signed at
\* the instant row r2 = 2 was created, and me has accepted it.
C12_Witness ==
  /\ last.kind = "me" /\ last.status = 200
  /\ uses[1] = 1 /\ nextTok = 2 /\ superseded = {}
  /\ \E t \in tokens :
       /\ t.token = 2 /\ last.user.id = t.userId
       /\ last.accessToken =
            [sub |-> IdToString(t.userId), roles |-> DefaultRoles,
             exp |-> t.expireAt - REFRESH_TOKEN_TTL + ACCESS_TOKEN_TTL,
             sig |-> "ok"]

\* Rows of the user of login request q whose value was issued before the
\* request arrived.
PriorRows(rows, q) == {t \in rows : t.userId = q.user.id /\ t.token <= q.mark}

\* C13: in login the deleteMany is complete before createTokens starts and
\* before the cookies are set: while a login waits to create its token, and
\* when it sets the new cookies, no row issued to its user before the login
\* arrived is stored.
C13_LoginDeletesBeforeIssuing ==
  [][/\ \A r \in Slots :
          (req'[r].kind = "login" /\ req'[r].pc = "createTokens") =>
            PriorRows(tokens', req'[r]) = {}
     /\ (last' # last /\ last'.kind = "login" /\ last'.setRefresh # NoCookie) =>
          /\ PriorRows(tokens', last') = {}
          /\ \E t \in tokens' : /\ t.token = last'.setRefresh
                                /\ t.userId = last'.user.id
    ]_vars

C13_Witness ==
  /\ last.kind = "login" /\ last.status = 200 /\ last.setRefresh # NoCookie
  /\ \E v \in 1..last.mark : issuedTo[v] = last.user.id /\ uses[v] = 0
  /\ \E t \in tokens : t.token = last.setRefresh

\* C14: a refresh without cookie is answered 401 and one whose value is in
\* no row is answered 403; either way no cookie is set and the collections
\* and the supply of values are as before.  Only a request that found its
\* row goes on to the store-writing steps.
C14_RefreshFailuresDistinct ==
  [][/\ (last' # last /\ last'.kind = "refresh" /\ "stored" \notin last'.obs) =>
          /\ last'.status = IF last'.refreshToken = NoCookie THEN 401 ELSE 403
          /\ last'.setRefresh = NoCookie /\ last'.setAccess = NoAccess
          /\ tokens' = tokens /\ users' = users /\ nextTok' = nextTok
     /\ \A r \in Slots : req'[r].kind = "refresh" =>
          ("stored" \in req'[r].obs /\ req'[r].refreshToken # NoCookie)
    ]_vars

C14_Witness ==
  /\ last.kind = "refresh" /\ last.refreshToken \notin {NoCookie, Bogus}
  /\ "stored" \notin last.obs /\ last.status = 403
  /\ tokens # {}

\* C15: a refresh presenting a stored value whose user is in the User
\* collection no more is answered 403 without cookies; by then no row holds
\* the presented value, and the request never reaches createTokens, so it
\* creates no row.
C15_RefreshOrphanForbidden ==
  [][/\ (last' # last /\ last'.kind = "refresh" /\ "orphan" \in last'.obs) =>
          /\ last'.status = 403
          /\ last'.setRefresh = NoCookie /\ last'.setAccess = NoAccess
          /\ \A t \in tokens' : t.token # last'.refreshToken
          /\ tokens' = tokens /\ nextTok' = nextTok
     /\ \A r \in Slots :
          (req'[r].kind = "refresh" /\ "orphan" \in req'[r].obs) =>
            req'[r].pc # "createTokens"
    ]_vars

C15_Witness ==
  /\ last.kind = "refresh" /\ "orphan" \in last.obs /\ last.status = 403
  /\ last.message = "User not found."
  /\ users # {}

\* C16: every issuance of a session (the createTokens step of register,
\* login and refresh) adds exactly one row to the RefreshToken collection,
\* whose value was never issued before and is the one put in the cookie,
\* and signs one access token for the same user; a response carries session
\* cookies only from such a step; no two rows ever hold the same value.
C16_IssuanceFresh ==
  [][/\ (nextTok' # nextTok \/ (last' # last /\ last'.setRefresh # NoCookie)) =>
          /\ nextTok' = nextTok + 1
          /\ last'.kind \in {"register", "login", "refresh"}
          /\ \E t \in tokens' :
               /\ t \notin tokens /\ tokens' = tokens \cup {t}
               /\ t.token = last'.setRefresh /\ t.userId = last'.user.id
               /\ t.token \notin 1..nextTok
               /\ \A old \in tokens : old.token # t.token
          /\ Cardinality(tokens') = Cardinality(tokens) + 1
          /\ last'.setAccess.sig = "ok"
          /\ last'.setAccess.sub = IdToString(last'.user.id)
          /\ last'.setAccess.exp = now + ACCESS_TOKEN_TTL
          /\ jar' = jar \cup {last'.setAccess}
     /\ \A t1, t2 \in tokens' : t1.token = t2.token => t1 = t2
    ]_vars

C16_Witness ==
  /\ last.kind = "refresh" /\ last.status = 200
  /\ nextTok >= 2 /\ last.setRefresh = nextTok
  /\ Cardinality(tokens) = 2

\* C17: for a request whose access token the server signed and whose expiry
\* has not been reached, authenticate sets req.user to the token's subject
\* and roles, calls next() and sends no response of its own.
C17_AuthenticateAttaches ==
  (/\ last.kind = "authenticate" /\ last.accessToken # NoAccess
   /\ last.accessToken.sig = "ok" /\ "expired" \notin last.obs) =>
    /\ last.nextCalled
    /\ last.reqUser = [id |-> last.accessToken.sub,
                       roles |-> last.accessToken.roles]
    /\ last.status = 0 /\ last.message = ""

C17_Witness ==
  /\ last.kind = "authenticate" /\ last.nextCalled
  /\ last.reqUser.roles = DefaultRoles
  /\ \E u \in users : last.reqUser.id = IdToString(u.id)
  /\ now < last.accessToken.exp

\* C18: authenticate touches no store.  Its step changes neither collection
\* (nor anything but the exchange it completes), and what it answers is
\* fixed by the presented token and the clock alone, whatever the
\* collections hold.
C18_AuthenticateStateless ==
  [][(last' # last /\ last'.kind = "authenticate") =>
       /\ UNCHANGED <<users, nextUser, tokens, nextTok, now, jar, req,
                      issuedTo, uses, superseded, aborted>>
       /\ LET t == last'.accessToken
          IN <<last'.status, last'.header, last'.nextCalled>> =
               IF t = NoAccess THEN <<401, "", FALSE>>
               ELSE IF t.sig # "ok" THEN <<401, "", FALSE>>
               ELSE IF now >= t.exp THEN <<401, ExpiredHeader, FALSE>>
               ELSE <<0, "", TRUE>>
    ]_vars

\* Accepted while the subject has no row in the RefreshToken collection and
\* other users have.
C18_Witness ==
  /\ last.kind = "authenticate" /\ last.nextCalled
  /\ tokens # {}
  /\ \A t \in tokens : t.userId # CastId(last.reqUser.id)

\* C19: access tokens are never revoked.  Whatever has happened to the
\* session since (logout, a later login, rotation of the refresh token),
\* authenticate accepts a token the server signed exactly as long as its own
\* expiry has not been reached, and answers 401 from then on.
C19_AccessNeverRevoked ==
  (/\ last.kind = "authenticate" /\ last.accessToken # NoAccess
   /\ last.accessToken.sig = "ok") =>
    /\ last.nextCalled <=> "expired" \notin last.obs
    /\ "expired" \in last.obs => last.status = 401

\* One user, whose session was rotated, replaced by a login and logged out,
\* all at instant 0: every token signed so far is the one first issued, and
\* authenticate has accepted it.
C19_Witness ==
  /\ last.kind = "authenticate" /\ last.nextCalled
  /\ now = 0 /\ Cardinality(users) = 1
  /\ uses[1] = 1 /\ superseded # {} /\ tokens = {}

\* C20: an exchange that ends in an internal failure (status 500: an Error
\* without cause, or a thrown value that is no Error) carries the generic
\* message and not the failure's own; a domain failure carries the status
\* and message of its cause.
C20_InternalErrorGeneric ==
  /\ last.status = 500 => last.message = "Internal server error"
  /\ (last.kind = "register" /\ last.status = 409) =>
       last.message = "Email already exists"

\* C21: a response that sets the session cookies gives each its own
\* lifetime: the refreshToken cookie REFRESH_TOKEN_TTL and the accessToken
\* cookie ACCESS_TOKEN_TTL (maxAge is in milliseconds).
C21_CookieLifetimes ==
  last.setAccess # NoAccess =>
    /\ last.refreshMaxAge = REFRESH_TOKEN_TTL * 1000
    /\ last.accessMaxAge = ACCESS_TOKEN_TTL * 1000

\* C22: a refresh that stops after deleting the old row and before issuing
\* the new one leaves a state the user recovers from by logging in: when it
\* stops, no row holds the presented value and the attempt has created
\* none; a refresh arriving later with that value is answered 403 without
\* cookies; and a login with the right credentials that runs to its answer
\* is answered 200 with a session whose row is stored.
C22_AbortedRefreshRecoverable ==
  /\ [][(last' # last /\ last'.kind = "refresh" /\ last'.pc = "aborted"
           /\ last'.refreshToken \in aborted') =>
          /\ \A t \in tokens' : t.token # last'.refreshToken
          /\ tokens' = tokens /\ nextTok' = nextTok
          /\ last'.setRefresh = NoCookie /\ last'.setAccess = NoAccess
       ]_vars
  /\ []((last.kind = "refresh" /\ last.pc = "done" /\ "afterAbort" \in last.obs) =>
          /\ last.status = 403
          /\ last.setRefresh = NoCookie /\ last.setAccess = NoAccess)
  /\ [](\A r \in Slots : req[r].kind = "refresh" => "afterAbort" \notin req[r].obs)
  /\ []((/\ last.kind = "login" /\ last.pc = "done" /\ "known" \in last.obs
         /\ \E u \in users : /\ u.email = last.email
                             /\ Compare(last.password, u.password)) =>
          /\ last.status = 200
          /\ last.setRefresh # NoCookie /\ last.setAccess # NoAccess)
  /\ [][(last' # last /\ last'.kind = "login" /\ last'.pc = "done"
           /\ last'.status = 200) =>
          \E t \in tokens' : /\ t.token = last'.setRefresh
                              /\ t.userId = last'.user.id
       ]_vars

\* A login has succeeded for a user one of whose refreshes had stopped after
\* the delete; the user's only row is the one the login created.
C22_Witness ==
  /\ last.kind = "login" /\ last.pc = "done" /\ last.status = 200
  /\ \E v \in aborted : issuedTo[v] = last.user.id
  /\ {t.token : t \in {x \in tokens : x.userId = last.user.id}} = {last.setRefresh}

\* C23: issue / verify round trip.  The access token a session is issued
\* with verifies, before its expiry, to the id (as a string) and the roles of
\* the user the session is for; and the identity authenticate attaches is
\* that of a stored user a session was issued to: its id converts back to
\* that user's id and its roles are that user's.
C23_IssueVerifyRoundTrip ==
  /\ [][(last' # last /\ last'.setAccess # NoAccess) =>
          /\ Verify(last'.setAccess) = "decoded"
          /\ last'.setAccess.sub = IdToString(last'.user.id)
          /\ CastId(last'.setAccess.sub) = last'.user.id
          /\ last'.setAccess.roles = last'.user.roles
       ]_vars
  /\ []((last.kind = "authenticate" /\ last.nextCalled) =>
          \E u \in users :
            /\ last.reqUser.id = IdToString(u.id)
            /\ CastId(last.reqUser.id) = u.id
            /\ last.reqUser.roles = u.roles
            /\ \E v \in 1..nextTok : issuedTo[v] = u.id)

C23_Witness ==
  /\ last.kind = "authenticate" /\ last.nextCalled
  /\ Cardinality(users) = 2
  /\ \E u \in users : /\ u.email = "b@x" /\ u.id = 1
                      /\ last.reqUser = [id |-> IdToString(u.id), roles |-> u.roles]

\* C24: authenticate ends in exactly one of two ways: it rejects (401 from
\* the error handler, req.user not set, next() not called) or it sets
\* req.user and calls next() with no response of its own; a request whose
\* token is missing, badly signed or expired is rejected.
C24_AuthenticateEitherOr ==
  last.kind = "authenticate" =>
    /\ \/ /\ last.status = 401 /\ last.reqUser = NoIdentity /\ ~last.nextCalled
       \/ /\ last.status = 0 /\ last.reqUser # NoIdentity /\ last.nextCalled
    /\ (\/ last.accessToken = NoAccess
        \/ last.accessToken.sig # "ok"
        \/ "expired" \in last.obs) =>
         (last.status = 401 /\ ~last.nextCalled)

C24_Witness ==
  /\ last.kind = "authenticate" /\ "expired" \in last.obs
  /\ last.status = 401 /\ ~last.nextCalled /\ last.reqUser = NoIdentity

\* C25: me and authenticate answer a signed, unexpired access token without
\* subject with 403 and the message 'Invalid or expired access token.'.
C25_NoSubjectForbidden ==
  (/\ last.kind \in {"me", "authenticate"} /\ last.accessToken # NoAccess
   /\ last.accessToken.sig = "ok" /\ "expired" \notin last.obs
   /\ last.accessToken.sub = <<>>) =>
    /\ last.status = 403
    /\ last.message = "Invalid or expired access token."

\* C26: with the handlers running one at a time, no user ever has more
\* than one RefreshToken row, also between the store steps of a handler.
C26_OneRowPerUserSequential ==
  \A id \in 1..nextUser : Cardinality({t \in tokens : t.userId = id}) <= 1

\* Two users with one row each, after three issuances.
C26_Witness ==
  /\ Cardinality(users) = 2 /\ nextTok = 3
  /\ \A u \in users : Cardinality({t \in tokens : t.userId = u.id}) = 1
  /\ last.kind \in {"login", "refresh"} /\ last.status = 200

\* C27 as stated: with login and refresh requests interleaved at their
\* store steps, once all of them have completed every user has at most one
\* RefreshToken row.
C27_OneRowAfterRaces ==
  (\A s \in Slots : Free(s)) =>
    \A id \in 1..nextUser : Cardinality({t \in tokens : t.userId = id}) <= 1

\* C27 as amended: with login and refresh requests interleaved at their
\* store steps, no row stored holds a value that was issued to a user before
\* a login of that user which has succeeded arrived; rows minted by requests
\* that overlap a login may stay beside its session.
C27_NoRowSurvivesLogin ==
  \A t \in tokens : t.token \notin superseded

\* All requests completed, a login among them has succeeded, and its user is
\* left with two rows.
C27_Witness ==
  /\ \A s \in Slots : Free(s)
  /\ superseded # {}
  /\ \E u \in users : Cardinality({t \in tokens : t.userId = u.id}) = 2

\* C28: of register requests that overlap for one unused address, at most
\* one creates a User, and each is answered either 201 with a session or
\* 409 without cookies: the one that loses the race at User.create is
\* answered 409 like the one that loses at the exists check.
C28_ConcurrentRegisterConflict ==
  /\ \A u1, u2 \in users : u1.email = u2.email => u1 = u2
  /\ last.kind = "register" =>
       \/ /\ last.status = 201
          /\ last.setRefresh # NoCookie /\ last.setAccess # NoAccess
       \/ /\ last.status = 409
          /\ last.setRefresh = NoCookie /\ last.setAccess = NoAccess

\* C29: a login answered 401 (unknown address or wrong password) changes
\* nothing: the User and RefreshToken collections are as before, no
\* refresh value or access token is issued and no cookie is set, so every
\* row stored before it is still stored.
C29_FailedLoginChangesNothing ==
  [][(last' # last /\ last'.kind = "login" /\ last'.status = 401) =>
       /\ tokens' = tokens
       /\ users' = users
       /\ nextTok' = nextTok
       /\ jar' = jar
       /\ last'.setRefresh = NoCookie /\ last'.setAccess = NoAccess
       /\ last'.cleared = {}]_vars

\* A login with the wrong password has been answered 401 while the account
\* holds a stored session.
C29_Witness ==
  /\ last.kind = "login" /\ last.status = 401
  /\ last.user # NoUser
  /\ \E t \in tokens : t.userId = last.user.id

\* C30: every step of a login or refresh handler leaves the User collection
\* and the rows of other accounts unchanged: each row it deletes or creates
\* has the userId of the account the handler acts for.
C30_OtherAccountsUntouched ==
  [][\A r \in Slots :
       LET stepped == \/ req'[r] # req[r]
                      \/ Free(r) /\ req'[r] = Idle /\ last' # last
           q == IF req'[r] = Idle THEN last' ELSE req'[r]
           u == IF q.kind = "login" THEN q.user.id
                ELSE q.storedToken.userId
       IN (stepped /\ q.kind \in {"login", "refresh"}) =>
            /\ users' = users
            /\ \A t \in (tokens \ tokens') \cup (tokens' \ tokens) :
                 t.userId = u]_vars

\* A login or refresh has succeeded, replacing its account's row, while a
\* row issued earlier to another account is still stored.
C30_Witness ==
  /\ last.kind \in {"login", "refresh"} /\ last.status = 200
  /\ \E t \in tokens : /\ t.userId # last.user.id
                        /\ t.token < last.setRefresh
  /\ \E t \in tokens : t.userId = last.user.id /\ t.token = last.setRefresh

====
